---- MODULE Spec2Model ----
(***************************************************************************)
(* Three programs of the repository as state machines: the depth-limited   *)
(* web crawler of scripting_cyber/0x01-python_scripting/6-web_crawler.py   *)
(* (Spec, SpecFair, SpecReuse), the heap patcher of                        *)
(* linux_security/0x04_buffer_overflow/read_write_heap.py (SpecHeap) and   *)
(* the DNSEnumerator of scripting_cyber/0x01-python_scripting/             *)
(* 1-dns_records.py (SpecDns).  The programs share nothing: each           *)
(* specification runs one of them and leaves the others absent.            *)
(* A Python string is a sequence of tokens: the delimiters                 *)
(* ":", "/", "?", "#", " " are tokens of their own and every other token   *)
(* is a run of characters that holds no delimiter, so that urlparse,       *)
(* urljoin, str.split, str.startswith, str.endswith and str.lower are      *)
(* computed on the text of a URL and not on a parsed form of it.           *)
(***************************************************************************)
EXTENDS Integers, Sequences, FiniteSets, TLC

(***************************************************************************)
(* Strings                                                                 *)
(***************************************************************************)

\* str.lower() on one token: the tokens of the model that hold upper case.
LowerTok(t) ==
    CASE t = ".PDF" -> ".pdf"
      [] t = ".PNG" -> ".png"
      [] t = "TEXT/HTML" -> "text/html"
      [] t = "charset=UTF-8" -> "charset=utf-8"
      [] t = "JavaScript" -> "javascript"
      [] OTHER -> t

\* str.lower()
Lower(s) == [k \in 1..Len(s) |-> LowerTok(s[k])]

\* str.startswith(p)
StartsWith(s, p) == Len(s) >= Len(p) /\ SubSeq(s, 1, Len(p)) = p

\* str.endswith(p)
EndsWith(s, p) == Len(s) >= Len(p) /\ SubSeq(s, Len(s) - Len(p) + 1, Len(s)) = p

\* str.find(t) for a one-character t: the first index of t, 0 when absent.
Find(s, t) ==
    IF \E k \in 1..Len(s) : s[k] = t
    THEN CHOOSE k \in 1..Len(s) : s[k] = t /\ \A j \in 1..(k - 1) : s[j] # t
    ELSE 0

\* The first index of any token of ts at or after position from, Len(s)+1
\* when there is none.
FindAny(s, ts, from) ==
    IF \E k \in from..Len(s) : s[k] \in ts
    THEN CHOOSE k \in from..Len(s) :
            s[k] \in ts /\ \A j \in from..(k - 1) : s[j] \notin ts
    ELSE Len(s) + 1

\* s[i:] and s[:i] with 1-based positions.
From(s, i) == SubSeq(s, i, Len(s))
Upto(s, i) == SubSeq(s, 1, i)

\* str.strip(): leading and trailing blanks removed.
RECURSIVE Strip(_)
Strip(s) ==
    IF s = <<>> THEN s
    ELSE IF Head(s) = " " THEN Strip(Tail(s))
    ELSE IF s[Len(s)] = " " THEN Strip(Upto(s, Len(s) - 1))
    ELSE s

\* str.split(sep): the list of the pieces between the separators.
RECURSIVE Split(_, _)
Split(s, sep) ==
    LET k == Find(s, sep)
    IN  IF k = 0 THEN <<s>>
        ELSE <<Upto(s, k - 1)>> \o Split(From(s, k + 1), sep)

\* sep.join(parts)
RECURSIVE Join(_, _)
Join(parts, sep) ==
    IF parts = <<>> THEN <<>>
    ELSE IF Len(parts) = 1 THEN parts[1]
    ELSE parts[1] \o <<sep>> \o Join(Tail(parts), sep)

(***************************************************************************)
(* urllib.parse, as far as the crawler uses it                             *)
(***************************************************************************)

Delims == {":", "/", "?", "#", " "}

\* Tokens holding a character that a scheme may not hold, or starting with
\* a digit: the text before the first ":" is a scheme only without them.
NonSchemeTokens == Delims \cup {"q=1", "void(0)", "x@example.com", "8080", "123"}

uses_relative == {"", "http", "https", "ftp"}
uses_netloc == {"", "http", "https", "ftp"}

\* s cut at the first t: the text before it and the text after it (the
\* whole of s and "" when t is absent).
Partition(s, t) ==
    IF Find(s, t) > 0
    THEN <<Upto(s, Find(s, t) - 1), From(s, Find(s, t) + 1)>>
    ELSE <<s, <<>>>>

\* urlsplit, first step: the text before the first ":" is the scheme when
\* it holds scheme characters only; the scheme is lowered.
SplitScheme(url) ==
    IF Find(url, ":") > 1
       /\ \A k \in 1..(Find(url, ":") - 1) : url[k] \notin NonSchemeTokens
    THEN <<Lower(Partition(url, ":")[1]), Partition(url, ":")[2]>>
    ELSE <<<<>>, url>>

\* urlsplit, second step: after "//" the netloc runs to the next "/", "?"
\* or "#".
SplitNetloc(rest) ==
    IF StartsWith(rest, <<"/", "/">>)
    THEN <<SubSeq(rest, 3, FindAny(rest, {"/", "?", "#"}, 3) - 1),
           From(rest, FindAny(rest, {"/", "?", "#"}, 3))>>
    ELSE <<<<>>, rest>>

ParseQuery(scheme, netloc, rest, fragment) ==
    [scheme |-> scheme, netloc |-> netloc, path |-> Partition(rest, "?")[1],
     query |-> Partition(rest, "?")[2], fragment |-> fragment]

ParseFragment(scheme, netloc, rest) ==
    ParseQuery(scheme, netloc, Partition(rest, "#")[1], Partition(rest, "#")[2])

ParseNetloc(scheme, rest) ==
    ParseFragment(scheme, SplitNetloc(rest)[1], SplitNetloc(rest)[2])

\* urlparse(url): scheme, then "//" netloc, then "#" fragment, then "?" query.
urlparse(url) == ParseNetloc(SplitScheme(url)[1], SplitScheme(url)[2])

\* The scheme as one string ("" when the URL has none).
SchemeName(p) == IF p.scheme = <<>> THEN "" ELSE p.scheme[1]

WithQueryFragment(u, query, fragment) ==
    u \o (IF query # <<>> THEN <<"?">> \o query ELSE <<>>)
      \o (IF fragment # <<>> THEN <<"#">> \o fragment ELSE <<>>)

\* urlunparse
urlunparse(p) ==
    WithQueryFragment(
        (IF p.scheme # <<>> THEN p.scheme \o <<":">> ELSE <<>>)
        \o (IF p.netloc # <<>> \/
               (p.scheme # <<>> /\ SchemeName(p) \in uses_netloc
                  /\ ~StartsWith(p.path, <<"/", "/">>))
            THEN <<"/", "/">> \o p.netloc
                 \o (IF p.path # <<>> /\ Head(p.path) # "/" THEN <<"/">> ELSE <<>>)
            ELSE <<>>)
        \o p.path,
        p.query, p.fragment)

\* The path segments left after "." and ".." are resolved, in order.
RECURSIVE ResolveDots(_, _)
ResolveDots(segments, resolved) ==
    IF segments = <<>> THEN resolved
    ELSE ResolveDots(Tail(segments),
            IF Head(segments) = <<"..">>
            THEN (IF resolved = <<>> THEN resolved
                  ELSE Upto(resolved, Len(resolved) - 1))
            ELSE IF Head(segments) = <<".">> THEN resolved
            ELSE Append(resolved, Head(segments)))

\* segments[1:-1] = filter(None, segments[1:-1])
DropEmptyInner(segments) ==
    IF Len(segments) <= 2 THEN segments
    ELSE <<segments[1]>>
         \o SelectSeq(SubSeq(segments, 2, Len(segments) - 1), LAMBDA x : x # <<>>)
         \o <<segments[Len(segments)]>>

\* base_parts = bpath.split('/'), without its last part unless that is ''.
BaseParts(parts) ==
    IF parts[Len(parts)] # <<>> THEN Upto(parts, Len(parts) - 1) ELSE parts

\* '/'.join(resolved_path) or '/'
JoinedPath(resolved) == IF Join(resolved, "/") = <<>> THEN <<"/">> ELSE Join(resolved, "/")

\* The resolved path of segments; a last segment "." or ".." leaves a
\* trailing "/".
ResolvedPath(segments) ==
    JoinedPath(IF segments[Len(segments)] \in {<<".">>, <<"..">>}
               THEN Append(ResolveDots(segments, <<>>), <<>>)
               ELSE ResolveDots(segments, <<>>))

\* The path of urljoin's result when the reference has a path.
MergePath(bpath, path) ==
    ResolvedPath(DropEmptyInner(
        IF StartsWith(path, <<"/">>) THEN Split(path, "/")
        ELSE BaseParts(Split(bpath, "/")) \o Split(path, "/")))

\* urljoin once both are parsed and the reference has the base's scheme
\* when it has none of its own.
JoinParsed(url, b, u) ==
    IF u.scheme # b.scheme \/ SchemeName(u) \notin uses_relative THEN url
    ELSE urlunparse(
            IF SchemeName(u) \in uses_netloc /\ u.netloc # <<>> THEN u
            ELSE IF u.path = <<>>
            THEN [u EXCEPT !.netloc = b.netloc, !.path = b.path,
                           !.query = IF u.query = <<>> THEN b.query ELSE u.query]
            ELSE [u EXCEPT !.netloc = b.netloc, !.path = MergePath(b.path, u.path)])

DefaultScheme(u, scheme) == IF u.scheme = <<>> THEN [u EXCEPT !.scheme = scheme] ELSE u

\* urljoin(base, url)
urljoin(base, url) ==
    IF base = <<>> THEN url
    ELSE IF url = <<>> THEN base
    ELSE JoinParsed(url, urlparse(base),
                    DefaultScheme(urlparse(url), urlparse(base).scheme))

(***************************************************************************)
(* WebCrawler: the scope filter and the link extractor                     *)
(***************************************************************************)

skip_extensions == {<<".pdf">>, <<".jpg">>, <<".jpeg">>, <<".png">>, <<".gif">>,
                    <<".zip">>, <<".exe">>}

ValidScope(url, parsed_url, domain) ==
    IF SchemeName(parsed_url) \notin {"http", "https"} THEN FALSE
    ELSE IF parsed_url.netloc # domain THEN FALSE
    ELSE IF \E ext \in skip_extensions : EndsWith(Lower(url), ext) THEN FALSE
    ELSE TRUE

\* is_valid_url without the netloc test.
is_valid_url_any_host(url, domain) ==
    /\ SchemeName(urlparse(url)) \in {"http", "https"}
    /\ ~\E ext \in skip_extensions : EndsWith(Lower(url), ext)

\* is_valid_url with url.endswith(ext) in place of url.lower().endswith(ext).
is_valid_url_case_sensitive(url, domain) ==
    /\ SchemeName(urlparse(url)) \in {"http", "https"}
    /\ urlparse(url).netloc = domain
    /\ ~\E ext \in skip_extensions : EndsWith(url, ext)

\* is_valid_url with "scheme != 'https'" as its first test.
is_valid_url_https_only(url, domain) ==
    /\ SchemeName(urlparse(url)) = "https"
    /\ urlparse(url).netloc = domain
    /\ ~\E ext \in skip_extensions : EndsWith(Lower(url), ext)

\* WebCrawler.is_valid_url with self.domain = domain.
is_valid_url(url, domain) == ValidScope(url, urlparse(url), domain)

\* href.startswith(('#', 'javascript:', 'mailto:'))
SkippedPrefix(href) ==
    \/ StartsWith(href, <<"#">>)
    \/ StartsWith(href, <<"javascript", ":">>)
    \/ StartsWith(href, <<"mailto", ":">>)

\* AddLink without the test "absolute_url not in links".
AddLinkAgain(links, absolute_url, domain) ==
    IF is_valid_url(absolute_url, domain) THEN Append(links, absolute_url) ELSE links

\* if self.is_valid_url(absolute_url) and absolute_url not in links: append
AddLink(links, absolute_url, domain) ==
    IF is_valid_url(absolute_url, domain)
       /\ \A k \in 1..Len(links) : links[k] # absolute_url
    THEN Append(links, absolute_url)
    ELSE links

\* ExtractStep without absolute_url.split('#')[0].
ExtractStepKeepsFragment(links, href, current_url, domain) ==
    IF href = <<>> \/ SkippedPrefix(href) THEN links
    ELSE AddLink(links, urljoin(current_url, href), domain)

\* The body of the for loop of extract_links for one stripped href.
ExtractStep(links, href, current_url, domain) ==
    IF href = <<>> \/ SkippedPrefix(href) THEN links
    ELSE AddLink(links, Split(urljoin(current_url, href), "#")[1], domain)

\* The loop of extract_links over the href values of the anchors, in
\* document order; links is the list built so far.
RECURSIVE ExtractLoop(_, _, _, _)
ExtractLoop(anchors, current_url, domain, links) ==
    IF anchors = <<>> THEN links
    ELSE ExtractLoop(Tail(anchors), current_url, domain,
                     ExtractStep(links, Strip(Head(anchors)), current_url, domain))

\* WebCrawler.extract_links: anchors are the href values BeautifulSoup finds,
\* parse_ok is FALSE when parsing raises, which the except clause turns
\* into the empty list.
extract_links(anchors, current_url, domain, parse_ok) ==
    IF parse_ok THEN ExtractLoop(anchors, current_url, domain, <<>>) ELSE <<>>

(***************************************************************************)
(* The environment: what the user types, and what the site serves          *)
(***************************************************************************)

Origin == <<"https", ":", "/", "/", "example.com">>

\* What the user types at "Enter URL to crawl: ".
SeedInputs == {
    <<"example.com">>,
    <<" ", "http", ":", "/", "/", "example.com", "/">>,
    <<"https", ":", "/", "/", "example.com", "/", "dir", "/", "page">>,
    <<"example.com", "/", "report", ".pdf">>,
    <<" ">> }

\* main: url = input(...).strip(), then 'https://' prefixed unless the
\* text starts with 'http://' or 'https://'.
SeedOf(input) ==
    LET url == Strip(input)
    IN  IF StartsWith(url, <<"http", ":", "/", "/">>)
           \/ StartsWith(url, <<"https", ":", "/", "/">>)
        THEN url
        ELSE <<"https", ":", "/", "/">> \o url

\* int() on the decimal digits.
Digits ==
    ("0" :> 0) @@ ("1" :> 1) @@ ("2" :> 2) @@ ("3" :> 3) @@ ("4" :> 4) @@
    ("5" :> 5) @@ ("6" :> 6) @@ ("7" :> 7) @@ ("8" :> 8) @@ ("9" :> 9)

\* int(text): an optional sign and a digit, anything else raises ValueError.
ParseInt(text) ==
    IF Len(text) = 1 /\ text[1] \in DOMAIN Digits
    THEN [ok |-> TRUE, value |-> Digits[text[1]]]
    ELSE IF Len(text) = 2 /\ text[1] \in {"-", "+"} /\ text[2] \in DOMAIN Digits
    THEN [ok |-> TRUE,
          value |-> IF text[1] = "-" THEN 0 - Digits[text[2]] ELSE Digits[text[2]]]
    ELSE [ok |-> FALSE, value |-> 0]

\* "Enter max depth (default 2): "
DefaultDepth == 2

DepthOfNoDefault(depth_input) == ParseInt(depth_input)

\* max_depth = int(depth_input) if depth_input else 2
DepthOf(depth_input) ==
    IF depth_input = <<>> THEN [ok |-> TRUE, value |-> DefaultDepth]
    ELSE ParseInt(depth_input)

SiteNames == {"scope", "ext", "shared", "cycle", "diamond", "hrefs", "moved"}

\* The href values of the anchors of the page a site serves at a path, in
\* document order.
PageAnchors(name, path) ==
    LET root == path \in {<<>>, <<"/">>}
        at(seg) == path = <<"/", seg>>
    IN  CASE name = "scope" /\ root ->
               << Origin \o <<"/", "a">>,
                  <<"https", ":", "/", "/", "other.com", "/", "b">>,
                  <<"https", ":", "/", "/", "www.", "example.com", "/", "c">>,
                  <<"https", ":", "/", "/", "example.com", ":", "8080", "/", "d">>,
                  <<"/", "/", "other.com", "/", "x">>,
                  <<"ftp", ":", "/", "/", "example.com", "/", "f">>,
                  <<"http", ":", "/", "/", "example.com", "/", "e">> >>
          [] name = "ext" /\ root ->
               << <<"/", "report", ".pdf">>,
                  <<"/", "page2">>,
                  <<"/", "IMG", ".PNG">>,
                  <<"/", "report", ".pdf", "#", "p2">>,
                  <<"/", "report", ".pdf", "?", "q=1">> >>
          [] name = "shared" /\ root -> << <<"a">>, <<"b">> >>
          [] name = "shared" /\ at("a") -> << <<"/", "shared">>, <<"/", "a2">> >>
          [] name = "shared" /\ at("b") -> << <<"/", "shared">> >>
          [] name = "cycle" /\ root -> << <<"/">>, <<"a">> >>
          [] name = "cycle" /\ at("a") -> << <<"/", "a">>, Origin, <<"/", "b">> >>
          [] name = "cycle" /\ at("b") -> << <<"a">>, <<"#", "top">> >>
          [] name = "diamond" /\ root -> << <<"/", "a">>, <<"/", "b">> >>
          [] name = "diamond" /\ at("a") -> << <<"/", "b">>, <<"/", "d">> >>
          [] name = "diamond" /\ at("b") -> << <<"/", "c">> >>
          [] name = "hrefs" /\ (root \/ path = <<"/", "dir", "/", "page">>) ->
               << <<"#", "top">>,
                  <<" ">>,
                  <<"javascript", ":", "void(0)">>,
                  <<"mailto", ":", "x@example.com">>,
                  <<"JavaScript", ":", "void(0)">>,
                  <<"tel", ":", "123">>,
                  <<"a", "#", "frag">>,
                  <<" ", "a", " ">>,
                  <<"a", "?", "q=1">>,
                  <<"..", "/", "up">> >>
          [] name = "moved" /\ root -> << <<"/", "old">>, <<"/", "new", "/", "index">> >>
          [] name = "moved" /\ path = <<"/", "new", "/", "index">> ->
               << <<"child">>, <<"/", "top">> >>
          [] OTHER -> <<>>

\* The anchors of the page a site serves at url.
Page(name, url) ==
    LET p == urlparse(url)
    IN  IF p.netloc = <<"example.com">> THEN PageAnchors(name, p.path) ELSE <<>>

\* Where the site redirects a request for a path (the path itself when it
\* serves it).
Location(name, path) ==
    IF name = "moved" /\ path = <<"/", "old">> THEN <<"/", "new", "/", "index">>
    ELSE path

\* response.url: the URL reached once session.get(url, allow_redirects=True)
\* has followed the redirects.
FinalUrl(name, url) ==
    IF urlparse(url).netloc = <<"example.com">>
    THEN urlunparse([urlparse(url) EXCEPT !.path = Location(name, @)])
    ELSE url

\* response.text: the anchors of the body a GET of url returns with status
\* 200, which is the page at response.url.
ResponseText(name, url) == Page(name, FinalUrl(name, url))

\* What session.get(url, timeout=10, allow_redirects=True) can do: return a
\* response (exc = "none") or raise.  The body of a response is
\* ResponseText(site, url).
Response(status, ctype, parse_ok) ==
    [exc |-> "none", status |-> status, ctype |-> ctype, parse_ok |-> parse_ok]

Raises(exc) == [exc |-> exc, status |-> 0, ctype |-> <<>>, parse_ok |-> TRUE]

Outcomes == {
    Response(200, <<"TEXT/HTML", ";", "charset=UTF-8">>, TRUE),
    Response(200, <<"text/html">>, FALSE),
    Response(200, <<"application/json">>, TRUE),
    Response(404, <<"text/html">>, TRUE),
    Raises("Timeout"),
    Raises("ConnectionError"),
    Raises("TooManyRedirects") }

\* The log entry of a crawl_page call that has not returned.
Pending == Raises("pending")

\* The classes an exception is an instance of.
Mro(exc) ==
    CASE exc = "Timeout" ->
           {"Timeout", "RequestException", "Exception", "BaseException"}
      [] exc = "ConnectionError" ->
           {"ConnectionError", "RequestException", "Exception", "BaseException"}
      [] exc = "TooManyRedirects" ->
           {"TooManyRedirects", "RequestException", "Exception", "BaseException"}
      [] exc = "KeyboardInterrupt" -> {"KeyboardInterrupt", "BaseException"}
      [] OTHER -> {exc}

(***************************************************************************)
(* WebCrawler: the state                                                   *)
(***************************************************************************)

\* The depths the user types run from 0 to MaxDepthBound.
MaxDepthBound == 2

\* What the user types at "Enter max depth (default 2): ".
DepthInputs ==
    {<<" ">>, <<"abc">>, <<"-", "1">>}
    \cup {<<d>> : d \in {t \in DOMAIN Digits : Digits[t] <= MaxDepthBound}}

\* start_crawl is called at most MaxCrawls times on one WebCrawler.
MaxCrawls == 2

VARIABLES
    start_url,      \* self.start_url
    max_depth,      \* self.max_depth
    delay,          \* self.delay
    domain,         \* self.domain
    visited,        \* self.visited
    crawled_urls,   \* self.crawled_urls
    site,           \* the site behind the seed's host
    status,         \* "prompt", "ready", "crawling", or how start_crawl ended
    stack,          \* the frames of crawl_recursive, innermost last
    result,         \* what start_crawl returned
    fetchLog,       \* the crawl_page calls, in call order, with what each got
    pauses,         \* the time.sleep(self.delay) calls made
    interrupted,    \* a KeyboardInterrupt was delivered during the traversal
    url_input,      \* what the user types at the URL prompt
    depth_input,    \* what the user types at the depth prompt
    exit_code,      \* <<>> while the process runs, then <<its exit code>>
    main_interrupted, \* a KeyboardInterrupt reached the except clause of main
    summaries,      \* the summaries start_crawl printed: count and numbered list
    starts          \* len(fetchLog) at each call of start_crawl

\* read_write_heap.py
VARIABLES
    argv,           \* sys.argv[1:]
    maps_file,      \* the lines of /proc/{pid}/maps
    memory,         \* the bytes behind /proc/{pid}/mem, by address
    initial_memory, \* memory when the script started
    line_no,        \* the line "for line in maps_file" is at
    heap_pc,        \* "main", "lines" or "exited"
    heap_exit,      \* <<>> while the script runs, then <<its exit code>>
    replaced        \* <<>>, or <<the region and index of the match written>>

\* 1-dns_records.py
VARIABLES
    zone,           \* the records the resolver holds for self.domain
    results,        \* self.results
    total_records,  \* self.total_records
    found_types,    \* self.found_types
    record_index,   \* the position of "for record_type in self.record_types"
    calls,          \* the enumerate_all_records calls made
    summary         \* the "Summary:" lines printed: the two numbers of each

heapVars == <<argv, maps_file, memory, initial_memory, line_no, heap_pc,
              heap_exit, replaced>>

dnsVars == <<zone, results, total_records, found_types, record_index, calls,
             summary>>

crawlerVars == <<start_url, max_depth, delay, domain, visited, crawled_urls,
                 site, status, stack, result, fetchLog, pauses, interrupted,
                 url_input, depth_input, exit_code, main_interrupted,
                 summaries, starts>>

vars == <<start_url, max_depth, delay, domain, visited, crawled_urls, site,
          status, stack, result, fetchLog, pauses, interrupted,
          url_input, depth_input, exit_code, main_interrupted, summaries,
          starts, heapVars, dnsVars>>

\* No read_write_heap.py process runs.
HeapAbsent ==
    /\ argv = <<>> /\ maps_file = <<>> /\ memory = <<>>
    /\ initial_memory = <<>> /\ line_no = 0 /\ heap_pc = "absent"
    /\ heap_exit = <<>> /\ replaced = <<>>

\* No DNSEnumerator exists.
DnsAbsent ==
    /\ zone = <<>> /\ results = <<>> /\ total_records = 0 /\ found_types = 0
    /\ record_index = 0 /\ calls = 0 /\ summary = <<>>

\* No 6-web_crawler.py process runs.
CrawlerAbsent ==
    /\ url_input = <<>> /\ depth_input = <<>> /\ site = "none"
    /\ exit_code = <<>> /\ main_interrupted = FALSE /\ status = "absent"
    /\ start_url = <<>> /\ max_depth = 0 /\ delay = 0 /\ domain = <<>>
    /\ visited = {} /\ crawled_urls = <<>> /\ stack = <<>> /\ result = <<>>
    /\ fetchLog = <<>> /\ pauses = 0 /\ interrupted = FALSE
    /\ summaries = <<>> /\ starts = <<>>

config == <<start_url, max_depth, delay, domain, site>>

\* The terminal: what is typed, and the exit code of the process.
process == <<url_input, depth_input, exit_code, main_interrupted>>

\* main builds WebCrawler(url, max_depth): delay keeps its default.
DefaultDelay == 1

\* The process at the first prompt of main: no WebCrawler exists yet.
Init ==
    /\ url_input \in SeedInputs
    /\ depth_input \in DepthInputs
    /\ site \in SiteNames
    /\ exit_code = <<>>
    /\ main_interrupted = FALSE
    /\ status = "prompt"
    /\ start_url = <<>>
    /\ max_depth = 0
    /\ delay = DefaultDelay
    /\ domain = <<>>
    /\ visited = {}
    /\ crawled_urls = <<>>
    /\ stack = <<>>
    /\ result = <<>>
    /\ fetchLog = <<>>
    /\ pauses = 0
    /\ interrupted = FALSE
    /\ summaries = <<>>
    /\ starts = <<>>
    /\ HeapAbsent /\ DnsAbsent

\* sys.exit(code) in main: SystemExit passes the except clauses of main.
Exit(code) ==
    /\ exit_code' = <<code>>
    /\ UNCHANGED <<config, visited, crawled_urls, status>>

\* WebCrawler(url, max_depth): __init__ with delay at its default.
Construct(url, depth) ==
    /\ start_url' = url
    /\ max_depth' = depth
    /\ delay' = DefaultDelay
    /\ visited' = {}
    /\ crawled_urls' = <<>>
    /\ domain' = urlparse(url).netloc
    /\ status' = "ready"
    /\ UNCHANGED <<site, exit_code>>

\* main from the first prompt to the construction of the crawler: the URL
\* is read and checked, then the depth.
Main ==
    /\ status = "prompt" /\ exit_code = <<>>
    /\ IF Strip(url_input) = <<>> THEN Exit(1)
       ELSE IF ~DepthOf(Strip(depth_input)).ok THEN Exit(1)
       ELSE IF DepthOf(Strip(depth_input)).value < 0 THEN Exit(1)
       ELSE Construct(SeedOf(url_input), DepthOf(Strip(depth_input)).value)
    /\ UNCHANGED <<url_input, depth_input, main_interrupted, stack, result,
                   fetchLog, pauses, interrupted, summaries, starts>>
    /\ UNCHANGED <<heapVars, dnsVars>>

(***************************************************************************)
(* WebCrawler.crawl_page                                                   *)
(***************************************************************************)

\* The except clauses of crawl_page: each prints and returns [].
CrawlPageHandlers == {"Timeout", "ConnectionError", "Exception"}

CrawlPageCatchesAll(exc) == TRUE

CrawlPageCatchesTimeoutOnly(exc) == "Timeout" \in Mro(exc)

CrawlPageCatches(exc) == CrawlPageHandlers \cap Mro(exc) # {}

StatusAny(status_code) == TRUE

\* response.status_code != 200 is the failure test.
StatusOk(status_code) == status_code = 200

HtmlAny(content_type) == TRUE

\* 'text/html' in response.headers.get('content-type', '').lower()
IsHtml(content_type) ==
    \E k \in 1..Len(content_type) : Lower(content_type)[k] = "text/html"

\* crawl_page(url) when session.get ends with outcome o: the links it
\* returns, self.crawled_urls afterwards, and the exception that leaves it
\* ("none" when it returns).
crawl_page_parse_escapes(url, o, crawled, siteName, dom) ==
    IF o.exc # "none"
    THEN [links |-> <<>>, crawled |-> crawled,
          escaped |-> IF CrawlPageCatches(o.exc) THEN "none" ELSE o.exc]
    ELSE IF ~StatusOk(o.status) \/ ~IsHtml(o.ctype) \/ ~o.parse_ok
    THEN [links |-> <<>>, crawled |-> crawled, escaped |-> "none"]
    ELSE [links |-> extract_links(ResponseText(siteName, url), url, dom, o.parse_ok),
          crawled |-> Append(crawled, url),
          escaped |-> "none"]

crawl_page(url, o, crawled, siteName, dom) ==
    IF o.exc # "none"
    THEN [links |-> <<>>, crawled |-> crawled,
          escaped |-> IF CrawlPageCatches(o.exc) THEN "none" ELSE o.exc]
    ELSE IF ~StatusOk(o.status)
    THEN [links |-> <<>>, crawled |-> crawled, escaped |-> "none"]
    ELSE IF ~IsHtml(o.ctype)
    THEN [links |-> <<>>, crawled |-> crawled, escaped |-> "none"]
    ELSE [links |-> extract_links(ResponseText(siteName, url), url, dom, o.parse_ok),
          crawled |-> Append(crawled, url),
          escaped |-> "none"]

(***************************************************************************)
(* WebCrawler.crawl_recursive and start_crawl                              *)
(***************************************************************************)

Top == stack[Len(stack)]

SetTop(stk, frame) == [stk EXCEPT ![Len(stk)] = frame]

Pop(stk) == SubSeq(stk, 1, Len(stk) - 1)

\* if current_depth > self.max_depth: return
DepthExceeded(current_depth, maxd) == current_depth > maxd

\* url in self.visited
AlreadyVisited(url, seen) == url \in seen

NotMarked(seen, url) == seen

\* self.visited.add(url)
MarkVisited(seen, url) == seen \cup {url}

SameDepth(current_depth) == current_depth

\* the depth passed to the recursive call
ChildDepth(current_depth) == current_depth + 1

\* if current_depth < self.max_depth
ShouldExpand(current_depth, maxd) == current_depth < maxd

LinkFromEnd(links, i) == links[Len(links) + 1 - i]

\* the i-th link the for loop takes
LinkAt(links, i) == links[i]

\* The except clauses of start_crawl and how the call ends in each.
StartCrawlEnds(exc) ==
    IF "KeyboardInterrupt" \in Mro(exc) THEN "interrupted"
    ELSE IF "Exception" \in Mro(exc) THEN "failed"
    ELSE "raised"

\* A call crawl_recursive(url, current_depth) made with the frames stk below
\* it, up to its call of crawl_page: the depth check, the visited check and
\* the marking.  path is the list of link positions that led to the call.
Call(url, current_depth, path, stk) ==
    IF DepthExceeded(current_depth, max_depth) \/ AlreadyVisited(url, visited)
    THEN /\ stack' = stk
         /\ UNCHANGED <<visited, fetchLog>>
    ELSE /\ visited' = MarkVisited(visited, url)
         /\ fetchLog' = Append(fetchLog,
                [url |-> url, depth |-> current_depth, path |-> path,
                 outcome |-> Pending, links |-> <<>>])
         /\ stack' = Append(stk,
                [url |-> url, depth |-> current_depth, path |-> path,
                 links |-> <<>>, i |-> 1, pc |-> "fetch", call |-> Len(fetchLog) + 1])

\* An exception leaves crawl_recursive: every frame is unwound and
\* start_crawl's except clauses decide how the call ends.
Propagate(exc) ==
    /\ stack' = <<>>
    /\ status' = StartCrawlEnds(exc)
    /\ result' = IF StartCrawlEnds(exc) = "raised" THEN <<>> ELSE crawled_urls

\* start_crawl up to the first crawl_page call.
BeginCrawl ==
    /\ status' = "crawling"
    /\ starts' = Append(starts, Len(fetchLog))
    /\ interrupted' = FALSE
    /\ Call(start_url, 0, <<>>, <<>>)
    /\ UNCHANGED <<config, process, crawled_urls, result, pauses, summaries>>
    /\ UNCHANGED <<heapVars, dnsVars>>

\* crawled_urls = crawler.start_crawl() in main.
StartCrawl ==
    /\ status = "ready" /\ exit_code = <<>>
    /\ BeginCrawl

\* start_crawl called again on the same WebCrawler, after it returned.
StartAgain ==
    /\ status \in {"done", "interrupted", "failed"} /\ exit_code = <<>>
    /\ Len(starts) < MaxCrawls
    /\ BeginCrawl

\* crawl_page ended with r after the request ended with o.
CrawlPageEnds(o, r) ==
    /\ fetchLog' = [fetchLog EXCEPT ![Top.call].outcome = o,
                                    ![Top.call].links = r.links]
    /\ crawled_urls' = r.crawled
    /\ IF r.escaped = "none"
       THEN /\ stack' = SetTop(stack, [Top EXCEPT !.links = r.links, !.pc = "delay"])
            /\ UNCHANGED <<status, result>>
       ELSE Propagate(r.escaped)

\* links = self.crawl_page(url): the request ends with one of the outcomes.
CrawlPage ==
    /\ status = "crawling" /\ stack # <<>> /\ Top.pc = "fetch"
    /\ \E o \in Outcomes :
         CrawlPageEnds(o, crawl_page(Top.url, o, crawled_urls, site, domain))
    /\ UNCHANGED <<config, process, visited, pauses, interrupted, summaries,
                   starts>>
    /\ UNCHANGED <<heapVars, dnsVars>>

SleepsWhenLong(seconds) == seconds > 1

\* if self.delay > 0
Sleeps(seconds) == seconds > 0

\* if self.delay > 0: time.sleep(self.delay)
Delay ==
    /\ status = "crawling" /\ stack # <<>> /\ Top.pc = "delay"
    /\ pauses' = IF Sleeps(delay) THEN pauses + 1 ELSE pauses
    /\ stack' = SetTop(stack, [Top EXCEPT !.pc = "loop"])
    /\ UNCHANGED <<config, process, visited, crawled_urls, status, result,
                   fetchLog, interrupted, summaries, starts>>
    /\ UNCHANGED <<heapVars, dnsVars>>

\* One iteration of "for link in links" under "if current_depth < max_depth".
LoopStep ==
    /\ status = "crawling" /\ stack # <<>> /\ Top.pc = "loop"
    /\ ShouldExpand(Top.depth, max_depth) /\ Top.i <= Len(Top.links)
    /\ LET link == LinkAt(Top.links, Top.i)
           stk == SetTop(stack, [Top EXCEPT !.i = Top.i + 1])
       IN  IF link \notin visited
           THEN Call(link, ChildDepth(Top.depth), Append(Top.path, Top.i), stk)
           ELSE /\ stack' = stk
                /\ UNCHANGED <<visited, fetchLog>>
    /\ UNCHANGED <<config, process, crawled_urls, status, result, pauses,
                   interrupted, summaries, starts>>
    /\ UNCHANGED <<heapVars, dnsVars>>

\* crawl_recursive returns: the loop is over, or the depth forbids it.
Return ==
    /\ status = "crawling" /\ stack # <<>> /\ Top.pc = "loop"
    /\ ~(ShouldExpand(Top.depth, max_depth) /\ Top.i <= Len(Top.links))
    /\ stack' = Pop(stack)
    /\ UNCHANGED <<config, process, visited, crawled_urls, status, result,
                   fetchLog, pauses, interrupted, summaries, starts>>
    /\ UNCHANGED <<heapVars, dnsVars>>

\* "Crawl completed. Found {len} pages:" and the lines "  {i}. {url}" of
\* enumerate(self.crawled_urls, 1).
Summary(crawled) ==
    [count |-> Len(crawled),
     lines |-> [k \in 1..Len(crawled) |-> [index |-> k, url |-> crawled[k]]]]

\* start_crawl after crawl_recursive returned: the summary is printed and
\* self.crawled_urls returned.
FinishCrawl ==
    /\ status = "crawling" /\ stack = <<>>
    /\ status' = "done"
    /\ summaries' = Append(summaries, Summary(crawled_urls))
    /\ result' = crawled_urls
    /\ UNCHANGED <<config, process, visited, crawled_urls, stack, fetchLog,
                   pauses, interrupted, starts>>
    /\ UNCHANGED <<heapVars, dnsVars>>

\* The user presses Ctrl-C while start_crawl is inside its try block: a
\* KeyboardInterrupt is raised where the program is.  Inside crawl_page it
\* meets crawl_page's except clauses first.
Interrupt ==
    /\ status = "crawling"
    /\ interrupted' = TRUE
    /\ IF stack # <<>> /\ Top.pc = "fetch" /\ CrawlPageCatches("KeyboardInterrupt")
       THEN /\ stack' = SetTop(stack, [Top EXCEPT !.pc = "delay"])
            /\ fetchLog' = [fetchLog EXCEPT
                              ![Top.call].outcome = Raises("KeyboardInterrupt")]
            /\ UNCHANGED <<status, result>>
       ELSE /\ Propagate("KeyboardInterrupt")
            /\ UNCHANGED fetchLog
    /\ UNCHANGED <<config, process, visited, crawled_urls, pauses, summaries,
                   starts>>
    /\ UNCHANGED <<heapVars, dnsVars>>

\* main after start_crawl returned: the reminder is printed and the process
\* ends; an exception that left start_crawl meets "except Exception".
MainEnds ==
    /\ status \in {"done", "interrupted", "failed", "raised"} /\ exit_code = <<>>
    /\ exit_code' = IF status = "raised" THEN <<1>> ELSE <<0>>
    /\ UNCHANGED <<config, url_input, depth_input, main_interrupted, visited,
                   crawled_urls, status, stack, result, fetchLog, pauses,
                   interrupted, summaries, starts>>
    /\ UNCHANGED <<heapVars, dnsVars>>

\* The user presses Ctrl-C while main is outside the try block of
\* start_crawl: "except KeyboardInterrupt" of main ends the process.
MainInterrupted ==
    /\ status \in {"prompt", "ready", "done", "interrupted", "failed"}
    /\ exit_code = <<>>
    /\ exit_code' = <<1>>
    /\ main_interrupted' = TRUE
    /\ UNCHANGED <<config, url_input, depth_input, visited, crawled_urls,
                   status, stack, result, fetchLog, pauses, interrupted,
                   summaries, starts>>
    /\ UNCHANGED <<heapVars, dnsVars>>

Next ==
    \/ Main
    \/ StartCrawl
    \/ CrawlPage
    \/ Delay
    \/ LoopStep
    \/ Return
    \/ FinishCrawl
    \/ Interrupt
    \/ MainEnds
    \/ MainInterrupted

Spec == Init /\ [][Next]_vars

\* The interpreter runs the next statement of a crawl that has started:
\* session.get returns or raises within its timeout and time.sleep returns.
CrawlStep == CrawlPage \/ Delay \/ LoopStep \/ Return \/ FinishCrawl

SpecFair == Spec /\ WF_vars(CrawlStep)

\* A caller that may call start_crawl again on the crawler it holds.
NextReuse == Next \/ StartAgain

SpecReuse == Init /\ [][NextReuse]_vars

(***************************************************************************)
(* read_write_heap.py                                                      *)
(***************************************************************************)

\* str.encode() on one character: its UTF-8 bytes, two for the one
\* character of the model outside ASCII.
EncodeChar(c) == IF c = "U+00E9" THEN <<"c3", "a9">> ELSE <<c>>

\* str.encode()
RECURSIVE Encode(_)
Encode(text) ==
    IF text = <<>> THEN <<>> ELSE EncodeChar(Head(text)) \o Encode(Tail(text))

HexDigits ==
    ("0" :> 0) @@ ("1" :> 1) @@ ("2" :> 2) @@ ("3" :> 3) @@ ("4" :> 4) @@
    ("5" :> 5) @@ ("6" :> 6) @@ ("7" :> 7) @@ ("8" :> 8) @@ ("9" :> 9) @@
    ("a" :> 10) @@ ("b" :> 11) @@ ("c" :> 12) @@ ("d" :> 13) @@ ("e" :> 14) @@
    ("f" :> 15)

\* int(text, 16) raises ValueError unless text is a run of hex digits.
IsHex(text) == text # <<>> /\ \A k \in 1..Len(text) : text[k] \in DOMAIN HexDigits

\* int(text, 16)
RECURSIVE HexValue(_)
HexValue(text) ==
    IF text = <<>> THEN 0
    ELSE 16 * HexValue(SubSeq(text, 1, Len(text) - 1)) + HexDigits[text[Len(text)]]

\* A line of /proc/{pid}/maps as line.split() gives it: the address range,
\* the permissions, offset, device, inode and the pathname when there is one.
MapsLine(range, permissions, pathname) ==
    <<range, <<permissions>>, <<"0">>, <<"00:00">>, <<"0">>>>
        \o (IF pathname = <<>> THEN <<>> ELSE <<pathname>>)

\* The bytes a region holds, by address.
RegionBytes(range, bytes) ==
    [a \in HexValue(Split(range, "-")[1])..(HexValue(Split(range, "-")[2]) - 1) |->
        bytes[a - HexValue(Split(range, "-")[1]) + 1]]

\* The address spaces a patched process may have: the lines of its maps
\* file and the bytes of its regions.  In the first the heap is followed
\* at once by an anonymous region and then by unmapped addresses; in the
\* second a library whose path holds "heap" is mapped read-write before the
\* heap; the third has no heap.
Layouts == {
    [maps |-> << MapsLine(<<"0", "-", "4">>, "r-xp", <<"/", "bin", "/", "prog">>),
                 MapsLine(<<"4", "-", "a">>, "rw-p", <<"[", "heap", "]">>),
                 MapsLine(<<"a", "-", "c">>, "rw-p", <<>>),
                 MapsLine(<<"e", "-", "1", "0">>, "rw-p", <<"[", "stack", "]">>) >>,
     mem  |-> RegionBytes(<<"0", "-", "4">>, <<"a", "b", "00", "a">>)
              @@ RegionBytes(<<"4", "-", "a">>, <<"00", "a", "b", "c3", "a9", "a">>)
              @@ RegionBytes(<<"a", "-", "c">>, <<"k", "k">>)
              @@ RegionBytes(<<"e", "-", "1", "0">>, <<"s", "s">>)],
    [maps |-> << MapsLine(<<"0", "-", "3">>, "rw-p",
                          <<"/", "lib", "/", "lib", "heap", ".so">>),
                 MapsLine(<<"3", "-", "5">>, "r--p", <<"[", "heap", "]">>),
                 MapsLine(<<"5", "-", "9">>, "rw-p", <<"[", "heap", "]">>) >>,
     mem  |-> RegionBytes(<<"0", "-", "3">>, <<"q", "00", "q">>)
              @@ RegionBytes(<<"3", "-", "5">>, <<"a", "b">>)
              @@ RegionBytes(<<"5", "-", "9">>, <<"00", "a", "b", "00">>)],
    [maps |-> << MapsLine(<<"0", "-", "2">>, "r-xp", <<"/", "bin", "/", "prog">>),
                 MapsLine(<<"e", "-", "1", "0">>, "rw-p", <<"[", "stack", "]">>) >>,
     mem  |-> RegionBytes(<<"0", "-", "2">>, <<"a", "b">>)
              @@ RegionBytes(<<"e", "-", "1", "0">>, <<"s", "s">>)] }

\* The search and replace strings typed on the command line.
SearchStrings == {<<"a">>, <<"a", "b">>, <<"z">>, <<"U+00E9">>, <<>>}

ReplaceStrings == {<<>>, <<"x">>, <<"x", "y">>, <<"x", "y", "w">>}

\* sys.argv[1:]: too few arguments, a pid that is no number, or a pid and
\* the two strings.
ArgvInputs ==
    {<< <<"7">>, <<"a">> >>}
        \cup {<< <<"abc">>, <<"a">>, <<"x">> >>}
        \cup {<< <<"7">>, s, r >> : s \in SearchStrings, r \in ReplaceStrings}

\* The process at the first statement of main.
InitHeap ==
    /\ CrawlerAbsent /\ DnsAbsent
    /\ argv \in ArgvInputs
    /\ \E layout \in Layouts : maps_file = layout.maps /\ memory = layout.mem
    /\ initial_memory = memory
    /\ line_no = 0
    /\ heap_pc = "main"
    /\ heap_exit = <<>>
    /\ replaced = <<>>

\* The process ends with the status: sys.exit(status), an uncaught
\* exception (1), or main returning (0).
Exits(code) ==
    /\ heap_exit' = <<code>>
    /\ heap_pc' = "exited"

\* len(sys.argv) != 4: usage() prints and calls sys.exit(1).
usage == Exits(1)

\* main up to "for line in maps_file": the arguments are checked, int(pid)
\* is outside the try block so its ValueError ends the process with the
\* traceback and status 1, and open(maps_path) raises when the process is
\* gone or may not be read.
HeapMain ==
    /\ heap_pc = "main"
    /\ IF Len(argv) # 3 THEN usage /\ UNCHANGED line_no
       ELSE IF ~ParseInt(argv[1]).ok THEN Exits(1) /\ UNCHANGED line_no
       ELSE \E opened \in BOOLEAN :
              IF opened
              THEN heap_pc' = "lines" /\ line_no' = 1 /\ UNCHANGED heap_exit
              ELSE Exits(1) /\ UNCHANGED line_no
    /\ UNCHANGED <<argv, maps_file, memory, initial_memory, replaced>>
    /\ UNCHANGED <<crawlerVars, dnsVars>>

\* parts[0].split('-') has two hex numbers and parts[1] exists: anything
\* else raises IndexError or ValueError.
LineParses(parts) ==
    /\ Len(parts) >= 2
    /\ Len(Split(parts[1], "-")) >= 2
    /\ IsHex(Split(parts[1], "-")[1]) /\ IsHex(Split(parts[1], "-")[2])

\* 'heap' in line
HasHeap(parts) ==
    \E w \in 1..Len(parts) : \E k \in 1..Len(parts[w]) : parts[w][k] = "heap"

\* 'rw-p' in permissions
HasRwp(permissions) == \E k \in 1..Len(permissions) : permissions[k] = "rw-p"

\* mem_file.seek(start); mem_file.read(end - start)
ReadMemory(mem, start, end) == [k \in 1..(end - start) |-> mem[start + k - 1]]

\* data.find(search_string): the index of the first occurrence, -1 when
\* there is none.
FindBytes(data, search_string) ==
    LET At(i) == SubSeq(data, i + 1, i + Len(search_string)) = search_string
        places == 0..(Len(data) - Len(search_string))
    IN  IF \E i \in places : At(i)
        THEN CHOOSE i \in places : At(i) /\ \A j \in 0..(i - 1) : ~At(j)
        ELSE 0 - 1

\* data[:index] + replace_string + data[index + len(search_string):]
NewData(data, index, search_string, replace_string) ==
    SubSeq(data, 1, index) \o replace_string
        \o SubSeq(data, index + Len(search_string) + 1, Len(data))

\* The bytes of new_data that reach the memory: all of them, or those before
\* the first address that is not mapped, where the write raises OSError.
WritableLen(mem, start, new_data) ==
    CHOOSE n \in 0..Len(new_data) :
       /\ \A k \in 0..(n - 1) : start + k \in DOMAIN mem
       /\ n < Len(new_data) => start + n \notin DOMAIN mem

\* mem_file.seek(start); mem_file.write(new_data)
WriteMemory(mem, start, new_data) ==
    [a \in DOMAIN mem |->
        IF a \in start..(start + WritableLen(mem, start, new_data) - 1)
        THEN new_data[a - start + 1]
        ELSE mem[a]]

\* The body of "if index != -1": the region is written back with the
\* replacement and the script leaves with sys.exit(0), which "except
\* Exception" lets through; a write that raises is caught there.
Replace(start, end, index, search_string, new_data) ==
    /\ memory' = WriteMemory(memory, start, new_data)
    /\ replaced' = <<[start |-> start, end |-> end, index |-> index,
                      search_len |-> Len(search_string),
                      new_len |-> Len(new_data),
                      written |-> start..(start + WritableLen(memory, start, new_data) - 1)]>>
    /\ IF WritableLen(memory, start, new_data) = Len(new_data)
       THEN Exits(0)
       ELSE Exits(1)
    /\ UNCHANGED line_no

\* The next iteration of "for line in maps_file".
NextLine ==
    /\ line_no' = line_no + 1
    /\ UNCHANGED <<memory, replaced, heap_pc, heap_exit>>

\* A line whose text holds "heap" and whose permissions hold "rw-p":
\* open(mem_path, 'r+b') and the read may raise; the bytes of the region are
\* searched and, when the string is there, replaced.
SearchRegion(start, end) ==
    \E opened \in BOOLEAN :
       IF ~opened
       THEN Exits(1) /\ UNCHANGED <<line_no, memory, replaced>>
       ELSE LET data == ReadMemory(memory, start, end)
                index == FindBytes(data, Encode(argv[2]))
            IN  IF index # 0 - 1
                THEN Replace(start, end, index, Encode(argv[2]),
                             NewData(data, index, Encode(argv[2]), Encode(argv[3])))
                ELSE NextLine

\* One iteration of "for line in maps_file".
HeapLine ==
    /\ heap_pc = "lines" /\ line_no <= Len(maps_file)
    /\ LET parts == maps_file[line_no]
       IN  IF ~LineParses(parts)
           THEN Exits(1) /\ UNCHANGED <<line_no, memory, replaced>>
           ELSE IF HasHeap(parts) /\ HasRwp(parts[2])
           THEN SearchRegion(HexValue(Split(parts[1], "-")[1]),
                             HexValue(Split(parts[1], "-")[2]))
           ELSE NextLine
    /\ UNCHANGED <<argv, maps_file, initial_memory>>
    /\ UNCHANGED <<crawlerVars, dnsVars>>

\* The loop is over: "Error: String not found in heap" is printed, the try
\* block ends, main returns and the interpreter exits with status 0.
HeapNotFound ==
    /\ heap_pc = "lines" /\ line_no > Len(maps_file)
    /\ Exits(0)
    /\ UNCHANGED <<argv, maps_file, memory, initial_memory, line_no, replaced>>
    /\ UNCHANGED <<crawlerVars, dnsVars>>

NextHeap ==
    \/ HeapMain
    \/ HeapLine
    \/ HeapNotFound

SpecHeap == InitHeap /\ [][NextHeap]_vars

(***************************************************************************)
(* 1-dns_records.py: DNSEnumerator                                         *)
(***************************************************************************)

\* self.record_types
record_types == <<"A", "AAAA", "MX", "NS", "TXT", "SOA">>

\* A zone without records of any type.
NoRecords == [t \in {record_types[k] : k \in 1..Len(record_types)} |-> <<>>]

\* The rdata the resolver can answer with for self.domain, by record type:
\* a zone with some types, a zone with every type, and a name that does not
\* exist.
Zones == {
    [NoRecords EXCEPT
        !["A"] = << [address |-> "192.0.2.1"], [address |-> "192.0.2.2"] >>,
        !["MX"] = << [preference |-> "10", exchange |-> "mail.example.com."] >>,
        !["TXT"] = << [strings |-> <<"v=spf1", " -all">>] >>],
    [NoRecords EXCEPT
        !["A"] = << [address |-> "192.0.2.1"] >>,
        !["AAAA"] = << [address |-> "2001:db8::1"] >>,
        !["MX"] = << [preference |-> "10", exchange |-> "mail.example.com."],
                     [preference |-> "20", exchange |-> "backup.example.com."] >>,
        !["NS"] = << [address |-> "ns1.example.com."] >>,
        !["TXT"] = << [strings |-> <<"hello">>] >>,
        !["SOA"] = << [mname |-> "ns1.example.com.", rname |-> "admin.example.com.",
                       serial |-> "7"] >>],
    NoRecords }

\* The record lists of query_record_type: one printable string per rdata.
FormatRecord(record_type, rdata) ==
    CASE record_type = "MX" -> <<rdata.preference, " ", rdata.exchange>>
      [] record_type = "SOA" ->
           <<"Primary: ", rdata.mname, ", Admin: ", rdata.rname,
             ", Serial: ", rdata.serial>>
      [] record_type = "TXT" -> <<"\"">> \o rdata.strings \o <<"\"">>
      [] OTHER -> <<rdata.address>>

\* How dns.resolver.resolve can end for a type: with the answers of the
\* zone, or raising; it raises NoAnswer or NXDOMAIN when there are none.
ResolveOutcomes(z, record_type) ==
    IF z[record_type] = <<>>
    THEN {"NoAnswer", "NXDOMAIN", "Timeout"}
    ELSE {"answer", "Timeout", "Exception"}

\* query_record_type: the formatted answers, [] when the resolver raised.
query_record_type(z, record_type, outcome) ==
    IF outcome = "answer"
    THEN [k \in 1..Len(z[record_type]) |-> FormatRecord(record_type, z[record_type][k])]
    ELSE <<>>

\* The calls of enumerate_all_records a caller makes on one DNSEnumerator.
MaxEnumerations == 2

\* enumerator = DNSEnumerator(domain): __init__ has run.
InitDns ==
    /\ CrawlerAbsent /\ HeapAbsent
    /\ zone \in Zones
    /\ results = <<>>
    /\ total_records = 0
    /\ found_types = 0
    /\ record_index = 0
    /\ calls = 0
    /\ summary = <<>>

\* enumerate_all_records is called: the header is printed and the loop
\* over self.record_types begins.
EnumerateAllRecords ==
    /\ record_index = 0 /\ calls < MaxEnumerations
    /\ record_index' = 1
    /\ calls' = calls + 1
    /\ UNCHANGED <<zone, results, total_records, found_types, summary>>
    /\ UNCHANGED <<crawlerVars, heapVars>>

\* The body of "if records".
StoreRecords(record_type, records) ==
    /\ results' = (record_type :> records) @@ results
    /\ found_types' = found_types + 1
    /\ total_records' = total_records + Len(records)

\* One iteration of "for record_type in self.record_types".
QueryRecord ==
    /\ record_index \in 1..Len(record_types)
    /\ \E outcome \in ResolveOutcomes(zone, record_types[record_index]) :
         LET records == query_record_type(zone, record_types[record_index], outcome)
         IN  IF records # <<>>
             THEN StoreRecords(record_types[record_index], records)
             ELSE UNCHANGED <<results, found_types, total_records>>
    /\ record_index' = record_index + 1
    /\ UNCHANGED <<zone, calls, summary>>
    /\ UNCHANGED <<crawlerVars, heapVars>>

\* "Summary: Found {found_types} record types with {total_records} total
\* records", and enumerate_all_records returns.
PrintSummary ==
    /\ record_index = Len(record_types) + 1
    /\ summary' = Append(summary, [types |-> found_types, records |-> total_records])
    /\ record_index' = 0
    /\ UNCHANGED <<zone, results, total_records, found_types, calls>>
    /\ UNCHANGED <<crawlerVars, heapVars>>

NextDns ==
    \/ EnumerateAllRecords
    \/ QueryRecord
    \/ PrintSummary

SpecDns == InitDns /\ [][NextDns]_vars

(***************************************************************************)
(* Vocabulary of the properties                                            *)
(***************************************************************************)

Range(seq) == {seq[k] : k \in 1..Len(seq)}

IsPrefix(p, q) == Len(p) <= Len(q) /\ SubSeq(q, 1, Len(p)) = p

Entries == 1..Len(fetchLog)

LogUrls == {fetchLog[k].url : k \in Entries}

\* The request of a log entry returned HTTP 200 with an HTML content type.
HtmlContentTypes == {<<"TEXT/HTML", ";", "charset=UTF-8">>, <<"text/html">>}

Succeeded(e) ==
    e.outcome.exc = "none" /\ e.outcome.status = 200
        /\ e.outcome.ctype \in HtmlContentTypes

\* crawl_page returned for the entry, and not with a recorded page.
Failed(e) == e.outcome # Pending /\ ~Succeeded(e)

\* The first position of u in crawled_urls.
Pos(u) == CHOOSE k \in 1..Len(crawled_urls) :
            crawled_urls[k] = u /\ \A j \in 1..(k - 1) : crawled_urls[j] # u

\* The log entries whose page is in the output.
Recorded == {k \in Entries : Succeeded(fetchLog[k])}

DeniedExtensions == {".pdf", ".jpg", ".jpeg", ".png", ".gif", ".zip", ".exe"}

EndsInDeniedExtension(u) == u # <<>> /\ LowerTok(u[Len(u)]) \in DeniedExtensions

InSeedScope(u) ==
    /\ SchemeName(urlparse(u)) \in {"http", "https"}
    /\ urlparse(u).netloc = urlparse(start_url).netloc

\* The absolute URL an anchor of the page at url stands for, without its
\* fragment.
Target(url, anchor) == Split(urljoin(url, Strip(anchor)), "#")[1]

(***************************************************************************)
(* C1                                                                      *)
(***************************************************************************)

\* C1: in one crawl, crawl_page is called at most once per URL string and no
\* URL is twice in crawled_urls, whatever the link graph.
C1_AtMostOnceFetch ==
    /\ \A j, k \in Entries : j # k => fetchLog[j].url # fetchLog[k].url
    /\ \A j, k \in 1..Len(crawled_urls) : j # k => crawled_urls[j] # crawled_urls[k]

\* Two recorded pages link to the same URL, which is recorded, and the crawl
\* is over.
C1_Witness ==
    /\ status = "done"
    /\ \E j, k \in Recorded : \E u \in Range(crawled_urls) :
         /\ j # k
         /\ u \in Range(fetchLog[j].links) /\ u \in Range(fetchLog[k].links)

(***************************************************************************)
(* C2                                                                      *)
(***************************************************************************)

\* C2: no URL is fetched at a recursion depth above max_depth, and every page
\* of crawled_urls was dispatched along at most max_depth link hops.
C2_DepthBound ==
    /\ \A k \in Entries :
         fetchLog[k].depth <= max_depth /\ Len(fetchLog[k].path) <= max_depth
    /\ \A u \in Range(crawled_urls) : \E k \in Entries :
         fetchLog[k].url = u /\ Len(fetchLog[k].path) <= max_depth

\* A page fetched at depth max_depth >= 1 has links, and the crawl ended
\* without following them.
C2_Witness ==
    /\ status = "done" /\ max_depth >= 1
    /\ \E k \in Recorded :
         /\ fetchLog[k].depth = max_depth
         /\ \E u \in Range(fetchLog[k].links) : u \notin visited

(***************************************************************************)
(* C3                                                                      *)
(***************************************************************************)

\* C3: every URL passed to the fetcher or recorded has scheme http or https
\* and the seed's netloc.
C3_ScopeContainment ==
    \A u \in LogUrls \cup Range(crawled_urls) : InSeedScope(u)

\* The page with links to another host, a subdomain and another port was
\* recorded at a depth below max_depth, its in-scope link was fetched, and
\* the crawl is over.
C3_Witness ==
    /\ status = "done" /\ site = "scope"
    /\ \E k \in Recorded :
         /\ fetchLog[k].depth < max_depth
         /\ \E a \in Range(ResponseText(site, fetchLog[k].url)) :
              urlparse(Target(fetchLog[k].url, a)).netloc = <<"www.", "example.com">>
         /\ \E u \in Range(fetchLog[k].links) : u \in Range(crawled_urls)

(***************************************************************************)
(* C4                                                                      *)
(***************************************************************************)

\* C4: no link whose URL ends, in any case, in a denied extension is passed to
\* crawl_page; when the crawl is over every other in-scope link of a page
\* recorded below max_depth has been passed to it.
C4_ExtensionExclusion ==
    /\ \A k \in Entries :
         fetchLog[k].path # <<>> => ~EndsInDeniedExtension(fetchLog[k].url)
    /\ status = "done" =>
         \A k \in Recorded :
            (fetchLog[k].depth < max_depth /\ fetchLog[k].outcome.parse_ok) =>
               \A a \in Range(ResponseText(site, fetchLog[k].url)) :
                  (/\ Strip(a) # <<>>
                   /\ Strip(a)[1] \notin {"#", "javascript", "mailto"}
                   /\ InSeedScope(Target(fetchLog[k].url, a))
                   /\ ~EndsInDeniedExtension(Target(fetchLog[k].url, a)))
                  => Target(fetchLog[k].url, a) \in LogUrls

\* A recorded page below max_depth has an anchor to a .PNG in upper case and
\* one to a page without extension, which was fetched.
C4_Witness ==
    /\ status = "done"
    /\ \E k \in Recorded :
         /\ fetchLog[k].depth < max_depth
         /\ \E a, b \in Range(ResponseText(site, fetchLog[k].url)) :
              /\ Target(fetchLog[k].url, a)[Len(Target(fetchLog[k].url, a))] = ".PNG"
              /\ ~EndsInDeniedExtension(Target(fetchLog[k].url, b))
              /\ Target(fetchLog[k].url, b) \in LogUrls

(***************************************************************************)
(* C5                                                                      *)
(***************************************************************************)

\* The URLs of the log entries that succeeded, in call order.
RECURSIVE SucceededUrls(_)
SucceededUrls(log) ==
    IF log = <<>> THEN <<>>
    ELSE (IF Succeeded(Head(log)) THEN <<Head(log).url>> ELSE <<>>)
         \o SucceededUrls(Tail(log))

\* C5: crawled_urls holds exactly the URLs whose fetch returned 200 with an
\* HTML content type, one append each; any other outcome appends nothing,
\* returns no link and has no link expanded.
C5_RecordedIffSuccess ==
    /\ crawled_urls = SucceededUrls(fetchLog)
    /\ \A k \in Entries :
         Failed(fetchLog[k]) =>
            /\ fetchLog[k].links = <<>>
            /\ fetchLog[k].url \notin Range(crawled_urls)
            /\ \A j \in Entries :
                 ~(Len(fetchLog[j].path) > Len(fetchLog[k].path)
                     /\ IsPrefix(fetchLog[k].path, fetchLog[j].path))

\* The crawl is over with a recorded page, a non-HTML 200 answer, a 404 and a
\* timeout among its fetches.
C5_Witness ==
    /\ status = "done" /\ crawled_urls # <<>>
    /\ \E k \in Entries : fetchLog[k].outcome.ctype = <<"application/json">>
    /\ \E k \in Entries : fetchLog[k].outcome.status = 404
    /\ \E k \in Entries : fetchLog[k].outcome.exc = "Timeout"

(***************************************************************************)
(* C6                                                                      *)
(***************************************************************************)

\* The log entry dispatched along path.
EntryAt(path) == CHOOSE k \in Entries : fetchLog[k].path = path

Front(path) == SubSeq(path, 1, Len(path) - 1)

\* A page is appended before any page dispatched through its links, and each
\* dispatched page is the link at its position of the page that led to it.
ParentFirst ==
    \A k \in Entries :
       fetchLog[k].path # <<>> =>
          LET parent == fetchLog[EntryAt(Front(fetchLog[k].path))]
          IN  /\ Succeeded(parent)
              /\ fetchLog[k].url = parent.links[fetchLog[k].path[Len(fetchLog[k].path)]]
              /\ Succeeded(fetchLog[k]) => Pos(parent.url) < Pos(fetchLog[k].url)

\* x was dispatched in the subtree of the i-th link of the page at path q.
InSubtree(x, q, i) == IsPrefix(Append(q, i), fetchLog[x].path)

\* C6 as stated: for links a before b of one page, every page recorded in a's
\* subtree precedes b and everything recorded in b's subtree.
C6_AsStated ==
    /\ ParentFirst
    /\ \A p \in Recorded : \A i, j \in 1..Len(fetchLog[p].links) :
         i < j =>
            \A x \in Recorded :
               InSubtree(x, fetchLog[p].path, i) =>
                  /\ fetchLog[p].links[j] \in Range(crawled_urls) =>
                        Pos(fetchLog[x].url) < Pos(fetchLog[p].links[j])
                  /\ \A y \in Recorded :
                        InSubtree(y, fetchLog[p].path, j) =>
                           Pos(fetchLog[x].url) < Pos(fetchLog[y].url)

\* C6 (amended): a page is appended before the pages dispatched through its
\* links; for links a before b of one page, b being dispatched from that
\* page, every page recorded in a's subtree precedes b and everything
\* recorded in b's subtree; crawled_urls only grows at its end.
C6_PreOrder ==
    /\ [](/\ ParentFirst
          /\ \A p \in Recorded : \A i, j \in 1..Len(fetchLog[p].links) :
               i < j =>
                  \A x, y \in Recorded :
                     (InSubtree(x, fetchLog[p].path, i)
                        /\ InSubtree(y, fetchLog[p].path, j))
                     => Pos(fetchLog[x].url) < Pos(fetchLog[y].url))
    /\ [][IsPrefix(crawled_urls, crawled_urls')]_vars

\* A page has links a before b, both dispatched from it and recorded, with a
\* page recorded under a, and the crawl is over.
C6_Witness ==
    /\ status = "done"
    /\ \E p, x, y, z \in Recorded :
         /\ fetchLog[x].path = Append(fetchLog[p].path, 1)
         /\ Front(fetchLog[z].path) = fetchLog[x].path
         /\ fetchLog[y].path = Append(fetchLog[p].path, 2)

(***************************************************************************)
(* C7                                                                      *)
(***************************************************************************)

\* The links of the page at u when its fetch succeeded.
LinksOf(u) ==
    UNION {Range(fetchLog[k].links) : k \in {j \in Recorded : fetchLog[j].url = u}}

\* The URLs within d links of the seed through successfully fetched pages.
RECURSIVE ReachableWithin(_)
ReachableWithin(d) ==
    IF d = 0 THEN {start_url}
    ELSE ReachableWithin(d - 1)
         \cup UNION {LinksOf(u) : u \in ReachableWithin(d - 1)}

\* C7: when a crawl ends without interrupt, every in-scope URL within
\* max_depth links of the seed through successfully fetched pages has been
\* dispatched, and is recorded if its fetch succeeded.
C7_FrontierExhaustion ==
    status = "done" =>
       \A u \in ReachableWithin(max_depth) :
          /\ u \in visited
          /\ \A k \in Recorded : fetchLog[k].url = u => u \in Range(crawled_urls)

(***************************************************************************)
(* C8                                                                      *)
(***************************************************************************)

\* C8: once a KeyboardInterrupt was delivered during the traversal,
\* start_crawl has returned crawled_urls as it was, without raising, and no
\* fetch is issued and no page appended from then on.
C8_Cancellation ==
    /\ [](interrupted =>
            status = "interrupted" /\ stack = <<>> /\ result = crawled_urls)
    /\ [][interrupted' =>
            fetchLog' = fetchLog /\ crawled_urls' = crawled_urls]_vars

\* The interrupt came during a fetch, after pages had been recorded.
C8_Witness ==
    /\ interrupted /\ status = "interrupted"
    /\ Len(result) >= 2
    /\ \E k \in Entries : fetchLog[k].outcome = Pending

(***************************************************************************)
(* C9                                                                      *)
(***************************************************************************)

\* C9: a failed fetch leaves crawl_page with no links and no exception, so
\* start_crawl never ends in an except clause for it, and when the crawl is
\* over every link of every page recorded below max_depth has been visited.
C9_FailuresLocal ==
    /\ status \notin {"failed", "raised"}
    /\ \A k \in Entries : Failed(fetchLog[k]) => fetchLog[k].links = <<>>
    /\ (\E k \in Entries : Failed(fetchLog[k])) /\ ~interrupted =>
          status \in {"crawling", "done"}
    /\ status = "done" =>
          \A k \in Recorded :
             fetchLog[k].depth < max_depth =>
                \A u \in Range(fetchLog[k].links) : u \in visited /\ u \in LogUrls

\* A link's fetch raised ConnectionError, and a later link of the same page
\* and a later link of the page above it were fetched afterwards.
C9_Witness ==
    /\ status = "done"
    /\ \E f, g, h \in Entries :
         /\ fetchLog[f].outcome.exc = "ConnectionError"
         /\ Len(fetchLog[f].path) = 2
         /\ fetchLog[g].path = Append(Front(fetchLog[f].path), fetchLog[f].path[2] + 1)
         /\ fetchLog[h].path = <<fetchLog[f].path[1] + 1>>

(***************************************************************************)
(* C10                                                                     *)
(***************************************************************************)

\* C10: with max_depth = 0 only the seed is fetched, and a finished crawl
\* returns [seed] when that fetch got 200 and HTML and [] otherwise, without
\* an exception ending start_crawl.
C10_DepthZero ==
    max_depth = 0 =>
       /\ Len(fetchLog) <= 1
       /\ status \notin {"failed", "raised"}
       /\ status = "done" =>
             /\ Len(fetchLog) = 1 /\ fetchLog[1].url = start_url
             /\ result = IF Succeeded(fetchLog[1]) THEN <<start_url>> ELSE <<>>

\* The seed page has links, max_depth is 0 and the crawl returned the seed
\* alone.
C10_Witness ==
    /\ max_depth = 0 /\ status = "done"
    /\ Len(fetchLog[1].links) >= 2
    /\ result = <<start_url>>

\* The seed fetch timed out with max_depth 0 and the crawl returned [].
C10_TimeoutWitness ==
    /\ max_depth = 0 /\ status = "done"
    /\ fetchLog[1].outcome.exc = "Timeout"
    /\ result = <<>>

(***************************************************************************)
(* C11                                                                     *)
(***************************************************************************)

\* The log entries whose page was recorded and parsed.
Parsed == {k \in Recorded : fetchLog[k].outcome.parse_ok}

\* The href of an anchor is not empty and does not begin with "#",
\* "javascript:" or "mailto:".
Followed(a) ==
    /\ Strip(a) # <<>>
    /\ Strip(a)[1] # "#"
    /\ ~(Len(Strip(a)) >= 2 /\ Strip(a)[1] \in {"javascript", "mailto"}
           /\ Strip(a)[2] = ":")

\* The anchors of the page returned for log entry k, in document order.
Anchors(k) == ResponseText(site, fetchLog[k].url)

\* The hrefs of the page returned for log entry k that are followed,
\* stripped.
Hrefs(k) == {Strip(a) : a \in {b \in Range(Anchors(k)) : Followed(b)}}

\* C11: the links of a returned page are its hrefs resolved against the URL
\* reached after redirects, so each link crawl_page returns is an href of
\* the page joined to response.url.
C11_RedirectBase ==
    \A k \in Parsed : \A u \in Range(fetchLog[k].links) :
       \E h \in Hrefs(k) :
          u = Split(urljoin(FinalUrl(site, fetchLog[k].url), h), "#")[1]

(***************************************************************************)
(* C12                                                                     *)
(***************************************************************************)

\* The crawl_page calls that have returned.
Returned == {k \in Entries : fetchLog[k].outcome # Pending}

\* crawl_page has returned and the pause after it has not been made yet.
AwaitingPause == status = "crawling" /\ stack # <<>> /\ Top.pc = "delay"

\* C12: every fetch that returned, whatever it returned, has had its pause
\* except the one that returned last, whose pause is the next step of the
\* traversal; a fetch is issued only when every earlier one has had its
\* pause, and a crawl that ends has made as many pauses as fetches.
C12_Pacing ==
    /\ [](/\ ~interrupted =>
                pauses = Cardinality(Returned) - (IF AwaitingPause THEN 1 ELSE 0)
          /\ pauses <= Len(fetchLog) /\ Len(fetchLog) <= pauses + 1
          /\ status = "done" => pauses = Len(fetchLog))
    /\ [][Len(fetchLog') > Len(fetchLog) => pauses = Len(fetchLog)]_vars
    /\ [][(AwaitingPause /\ ~interrupted') =>
            (pauses' = pauses + 1 /\ fetchLog' = fetchLog
               /\ crawled_urls' = crawled_urls /\ status' = status)]_vars

\* The crawl is over after a recorded page, a 404 and a timeout; the
\* last fetch was at depth max_depth and every fetch has had its pause.
C12_Witness ==
    /\ status = "done" /\ pauses = Len(fetchLog) /\ pauses >= 3
    /\ fetchLog[Len(fetchLog)].depth = max_depth
    /\ Failed(fetchLog[Len(fetchLog)])
    /\ \E k \in Entries : fetchLog[k].outcome.status = 404
    /\ \E k \in Entries : fetchLog[k].outcome.exc = "Timeout"

(***************************************************************************)
(* C13                                                                     *)
(***************************************************************************)

\* A printed summary gives the number of pages and numbers them from 1, in
\* the order of crawled.
IsSummaryOf(printed, crawled) ==
    /\ printed.count = Len(crawled)
    /\ Len(printed.lines) = Len(crawled)
    /\ \A k \in 1..Len(crawled) :
         printed.lines[k].index = k /\ printed.lines[k].url = crawled[k]

\* C13: when start_crawl has returned, after a normal end or after an
\* interrupt by the user, it has printed the summary of crawled_urls.
C13_SummaryAlways ==
    status \in {"done", "interrupted"} =>
       /\ Len(summaries) = Len(starts)
       /\ IsSummaryOf(summaries[Len(summaries)], crawled_urls)

(***************************************************************************)
(* C14                                                                     *)
(***************************************************************************)

DigitSeq == <<"0", "1", "2", "3", "4", "5", "6", "7", "8", "9">>

DigitTokens == Range(DigitSeq)

\* The text is a decimal number, with or without sign.
IsNumber(text) ==
    \/ Len(text) = 1 /\ text[1] \in DigitTokens
    \/ Len(text) = 2 /\ text[1] \in {"-", "+"} /\ text[2] \in DigitTokens

IsNegative(text) ==
    Len(text) = 2 /\ text[1] = "-" /\ text[2] \in DigitTokens \ {"0"}

\* The number a digit token stands for.
NumberOf(token) == (CHOOSE k \in 1..Len(DigitSeq) : DigitSeq[k] = token) - 1

\* What was typed is an empty URL, a negative depth or a depth that is no
\* number.
InvalidInput ==
    \/ Strip(url_input) = <<>>
    \/ Strip(depth_input) # <<>> /\ ~IsNumber(Strip(depth_input))
    \/ IsNegative(Strip(depth_input))

HasHttpPrefix(url) ==
    Len(url) >= 4 /\ url[1] \in {"http", "https"}
        /\ SubSeq(url, 2, 4) = <<":", "/", "/">>

\* C14: invalid input ends the process with exit code 1 and without a
\* fetch; otherwise the crawler gets the typed URL, with https:// before
\* it when it had no http:// or https:// prefix, and the typed depth, 2 for
\* an empty one, and the process ends with exit code 0 after a crawl that
\* completed or was interrupted during the traversal.
C14_CliOutcomes ==
    /\ InvalidInput =>
          /\ fetchLog = <<>> /\ status = "prompt" /\ exit_code # <<0>>
    /\ (~InvalidInput /\ status # "prompt") =>
          /\ start_url = IF HasHttpPrefix(Strip(url_input)) THEN Strip(url_input)
                         ELSE <<"https", ":", "/", "/">> \o Strip(url_input)
          /\ max_depth = IF Strip(depth_input) = <<>> THEN 2
                         ELSE NumberOf(Strip(depth_input)[Len(Strip(depth_input))])
    /\ exit_code = <<0>> => status \in {"done", "interrupted"}
    /\ (exit_code # <<>> /\ ~main_interrupted) =>
          exit_code = IF InvalidInput THEN <<1>> ELSE <<0>>

\* A URL typed without prefix and an empty depth: the crawl ran to depth 2,
\* was interrupted during a fetch, and the process ended with exit code 0.
C14_Witness ==
    /\ exit_code = <<0>> /\ status = "interrupted"
    /\ ~HasHttpPrefix(Strip(url_input)) /\ Strip(depth_input) = <<>>
    /\ \E k \in Entries : fetchLog[k].depth = 2 /\ fetchLog[k].outcome = Pending

\* A negative depth ended the process with exit code 1.
C14_NegativeDepthWitness ==
    /\ exit_code = <<1>> /\ ~main_interrupted
    /\ IsNegative(Strip(depth_input)) /\ Strip(url_input) # <<>>

\* A depth that is no number ended the process with exit code 1.
C14_NonNumericWitness ==
    /\ exit_code = <<1>> /\ ~main_interrupted
    /\ ~IsNumber(Strip(depth_input)) /\ Strip(depth_input) # <<>>
    /\ Strip(url_input) # <<>>

\* An empty URL ended the process with exit code 1.
C14_EmptyUrlWitness ==
    /\ exit_code = <<1>> /\ ~main_interrupted /\ Strip(url_input) = <<>>

\* The crawl completed and the process ended with exit code 0.
C14_CompletedWitness ==
    /\ exit_code = <<0>> /\ status = "done" /\ Len(crawled_urls) >= 2

(***************************************************************************)
(* C15                                                                     *)
(***************************************************************************)

\* The crawl_page calls of the n-th start_crawl call.
CrawlEntries(n) ==
    {k \in Entries :
        starts[n] < k /\ (n = Len(starts) \/ k <= starts[n + 1])}

FetchedIn(n) == {fetchLog[k].url : k \in CrawlEntries(n)}

\* C15: start_crawl was called twice on one WebCrawler, both calls ran to
\* their end and the site answered every request with a page that parsed;
\* then the second call fetched the URLs the first one fetched.
C15_FreshCrawl ==
    (/\ status = "done" /\ Len(starts) = 2 /\ Len(summaries) = 2
     /\ \A k \in Entries : Succeeded(fetchLog[k]) /\ fetchLog[k].outcome.parse_ok)
    => FetchedIn(2) = FetchedIn(1)

(***************************************************************************)
(* C16                                                                     *)
(***************************************************************************)

\* The URL each anchor of the page of entry k stands for, in document
\* order; <<>> for an anchor that is not followed.
TargetsOf(k) ==
    [n \in 1..Len(Anchors(k)) |->
        IF Followed(Anchors(k)[n]) THEN Target(fetchLog[k].url, Anchors(k)[n])
        ELSE <<>>]

\* The position of the first of the targets that is u.
FirstAnchor(targets, u) ==
    CHOOSE n \in 1..Len(targets) :
        targets[n] = u /\ \A m \in 1..(n - 1) : targets[m] # u

\* links holds no URL twice, each is one of the targets, they are ordered
\* by the first anchor that stands for each, and every target in the
\* seed's scope without a denied extension is among them.
FirstSeen(links, targets) ==
    /\ \A i, j \in 1..Len(links) : i # j => links[i] # links[j]
    /\ \A i \in 1..Len(links) : links[i] # <<>> /\ links[i] \in Range(targets)
    /\ \A i, j \in 1..Len(links) :
          i < j => FirstAnchor(targets, links[i]) < FirstAnchor(targets, links[j])
    /\ \A n \in 1..Len(targets) :
          (targets[n] # <<>> /\ InSeedScope(targets[n])
             /\ ~EndsInDeniedExtension(targets[n]))
          => targets[n] \in Range(links)

\* The log entry of the crawl_page call that has just returned, when the
\* page was recorded and parsed.
JustParsed == IF AwaitingPause THEN {Top.call} \cap Parsed ELSE {}

\* C16: each time crawl_page returns the links of a page, they hold no URL
\* twice, each at the place of the first anchor that stands for it, and
\* they hold every accepted target of the page's anchors.
C16_FirstSeenOrder ==
    \A k \in JustParsed :
       LET targets == TargetsOf(k) IN FirstSeen(fetchLog[k].links, targets)

\* Anchors m before n of the page of entry k have different hrefs for one
\* URL, which is the first of the three or more links returned.
SameTarget(k, targets, m, n) ==
    /\ m < n /\ Strip(Anchors(k)[m]) # Strip(Anchors(k)[n])
    /\ targets[m] # <<>> /\ targets[m] = targets[n]
    /\ Len(fetchLog[k].links) >= 3 /\ fetchLog[k].links[1] = targets[m]

\* A parsed page has two anchors with different hrefs for one URL, which is
\* returned once, before the URLs of later anchors.
C16_Witness ==
    \E k \in JustParsed :
       LET targets == TargetsOf(k)
       IN  \E m, n \in 1..Len(targets) : SameTarget(k, targets, m, n)

(***************************************************************************)
(* C17                                                                     *)
(***************************************************************************)

\* The query string of an href: what stands between its first "?" and its
\* fragment.
QueryOf(href) == Partition(Partition(href, "#")[1], "?")[2]

\* The links returned for a page: each is what a followed href of the page
\* stands for, none holds a "#", and a followed href with a query string
\* whose target is accepted has a link that ends in that query string.
FragmentFree(links, anchors, targets) ==
    /\ \A i \in 1..Len(links) :
          /\ \E n \in 1..Len(anchors) : Followed(anchors[n]) /\ links[i] = targets[n]
          /\ \A c \in 1..Len(links[i]) : links[i][c] # "#"
    /\ \A n \in 1..Len(anchors) :
          (/\ Followed(anchors[n]) /\ QueryOf(Strip(anchors[n])) # <<>>
           /\ InSeedScope(targets[n]) /\ ~EndsInDeniedExtension(targets[n]))
          => \E i \in 1..Len(links) :
                EndsWith(links[i], <<"?">> \o QueryOf(Strip(anchors[n])))

\* Two followed hrefs that differ in their fragment only.
FragmentOnly(a, b) ==
    /\ Followed(a) /\ Followed(b) /\ Strip(a) # Strip(b)
    /\ Partition(Strip(a), "#")[1] = Partition(Strip(b), "#")[1]

\* Hrefs of one page that differ in their fragment only have one link
\* between them.
OneEntry(links, anchors, targets) ==
    \A m, n \in 1..Len(anchors) :
       FragmentOnly(anchors[m], anchors[n]) =>
          /\ targets[m] = targets[n]
          /\ Cardinality({i \in 1..Len(links) : links[i] = targets[m]}) <= 1

\* C17: each time crawl_page returns the links of a page, none comes from
\* an href that is empty or begins with "#", "javascript:" or "mailto:",
\* none holds a fragment, query strings are kept, and hrefs that differ in
\* their fragment only give one link; no URL is fetched twice.
C17_NoFragment ==
    /\ \A k \in JustParsed :
          LET targets == TargetsOf(k)
          IN  /\ FragmentFree(fetchLog[k].links, Anchors(k), targets)
              /\ OneEntry(fetchLog[k].links, Anchors(k), targets)
    /\ \A u \in LogUrls : Cardinality({k \in Entries : fetchLog[k].url = u}) = 1

\* The page of entry k has an empty href, hrefs that begin with "#",
\* "javascript:" and "mailto:", two hrefs that differ in their fragment only
\* whose URL was returned and fetched, and an href with a query string.
SkipsAndFragments(k, anchors) ==
    /\ \E n \in 1..Len(anchors) : Strip(anchors[n]) = <<>>
    /\ \A t \in {"#", "javascript", "mailto"} :
          \E n \in 1..Len(anchors) :
             Strip(anchors[n]) # <<>> /\ Strip(anchors[n])[1] = t
    /\ \E m, n \in 1..Len(anchors) :
          /\ FragmentOnly(anchors[m], anchors[n])
          /\ Target(fetchLog[k].url, anchors[m]) \in Range(fetchLog[k].links)
          /\ Target(fetchLog[k].url, anchors[m]) \in LogUrls
    /\ \E i \in 1..Len(fetchLog[k].links) :
          \E c \in 1..Len(fetchLog[k].links[i]) : fetchLog[k].links[i][c] = "?"

\* The crawl is over and a parsed page had skipped hrefs, hrefs that differ
\* in their fragment only, and an href with a query string.
C17_Witness ==
    /\ status = "done"
    /\ \E k \in Parsed : SkipsAndFragments(k, Anchors(k))

(***************************************************************************)
(* C18                                                                     *)
(***************************************************************************)

\* The path component of u ends, in any case, in a denied extension.
PathEndsInDeniedExtension(u) ==
    /\ urlparse(u).path # <<>>
    /\ LowerTok(urlparse(u).path[Len(urlparse(u).path)]) \in DeniedExtensions

\* C18: no URL whose path ends in a denied extension passes the filter,
\* with or without a query string after the path: none is among the links
\* crawl_page returns and none is dispatched as a link.
C18_PathExtension ==
    /\ \A k \in JustParsed : \A u \in Range(fetchLog[k].links) :
          ~PathEndsInDeniedExtension(u)
    /\ \A k \in Entries :
          fetchLog[k].path # <<>> => ~PathEndsInDeniedExtension(fetchLog[k].url)

(***************************************************************************)
(* C19                                                                     *)
(***************************************************************************)

\* C19: every URL of crawled_urls, the seed included, is one the scope
\* filter of the crawler accepts.
C19_OutputPassesFilter ==
    \A k \in 1..Len(crawled_urls) : is_valid_url(crawled_urls[k], domain)

(***************************************************************************)
(* C20                                                                     *)
(***************************************************************************)

\* The scheme a URL is written with.
WrittenScheme(u) == IF Len(u) >= 2 /\ u[2] = ":" THEN LowerTok(u[1]) ELSE ""

\* C20 as stated: no URL is returned as a link or fetched whose scheme is not
\* the seed's.
C20_SameScheme ==
    /\ \A k \in Entries : WrittenScheme(fetchLog[k].url) = WrittenScheme(start_url)
    /\ \A k \in JustParsed : \A u \in Range(fetchLog[k].links) :
          WrittenScheme(u) = WrittenScheme(start_url)

\* The target of a followed anchor is among links exactly when its scheme is
\* http or https, its netloc the seed's, and it ends in no denied extension.
HttpOrHttps(links, targets) ==
    \A n \in 1..Len(targets) :
       targets[n] # <<>> =>
          (targets[n] \in Range(links) <=>
             (/\ WrittenScheme(targets[n]) \in {"http", "https"}
              /\ urlparse(targets[n]).netloc = urlparse(start_url).netloc
              /\ ~EndsInDeniedExtension(targets[n])))

\* C20 (amended): a link on the seed's host is returned by extract_links
\* exactly when its scheme is http or https, be it the seed's scheme or the
\* other one; every URL fetched has one of the two, and when the crawl is
\* over every link returned for a page below max_depth has been fetched.
C20_HttpOrHttps ==
    /\ \A k \in JustParsed :
          LET targets == TargetsOf(k) IN HttpOrHttps(fetchLog[k].links, targets)
    /\ \A k \in Entries : WrittenScheme(fetchLog[k].url) \in {"http", "https"}
    /\ status = "done" =>
          \A k \in Recorded :
             fetchLog[k].depth < max_depth =>
                \A u \in Range(fetchLog[k].links) : u \in LogUrls

\* An https crawl is over; a page had an http link and an ftp link on the
\* seed's host, and the http one was fetched and recorded.
C20_Witness ==
    /\ status = "done" /\ WrittenScheme(start_url) = "https"
    /\ \E k \in Parsed :
          /\ \E a \in Range(Anchors(k)) : WrittenScheme(Strip(a)) = "ftp"
          /\ \E u \in Range(fetchLog[k].links) :
                WrittenScheme(u) = "http" /\ u \in Range(crawled_urls)

\* An http crawl is over and an https link of the seed page was fetched.
C20_ReverseWitness ==
    /\ status = "done" /\ WrittenScheme(start_url) = "http"
    /\ \E k \in Entries : WrittenScheme(fetchLog[k].url) = "https"

(***************************************************************************)
(* C22                                                                     *)
(***************************************************************************)

\* C22: visited never loses a URL; at every moment it holds exactly the URLs
\* passed to crawl_page, those whose fetch has not returned included, and
\* every URL of crawled_urls; a URL whose fetch failed has one fetch only.
C22_VisitedSet ==
    /\ [](/\ visited = LogUrls
          /\ Range(crawled_urls) \subseteq visited
          /\ \A k \in Entries :
                Failed(fetchLog[k]) =>
                   \A j \in Entries : fetchLog[j].url = fetchLog[k].url => j = k)
    /\ [][visited \subseteq visited']_vars
    /\ [][\A k \in 1..Len(fetchLog') :
             k > Len(fetchLog) => fetchLog'[k].url \notin visited]_vars

\* The crawl is over; a URL whose fetch failed is a link of the page that
\* led to it and of a page that was fetched later.
C22_Witness ==
    /\ status = "done"
    /\ \E f \in Entries : \E j, k \in Recorded :
          /\ Failed(fetchLog[f]) /\ j < f /\ f < k
          /\ fetchLog[f].url \in Range(fetchLog[j].links)
          /\ fetchLog[f].url \in Range(fetchLog[k].links)

(***************************************************************************)
(* C24                                                                     *)
(***************************************************************************)

\* The page of the log entry was fetched with 200 and HTML and its parse
\* raised in extract_links.
ParseFailed(e) == Succeeded(e) /\ ~e.outcome.parse_ok

\* C24: a page whose parse failed is in crawled_urls and has no links, so
\* nothing is fetched below it; start_crawl never ends in an except clause
\* for it, and when the crawl is over every link of every page recorded
\* below max_depth has been visited.
C24_ParseFailureLocal ==
    /\ \A k \in Entries :
          ParseFailed(fetchLog[k]) =>
             /\ fetchLog[k].url \in Range(crawled_urls)
             /\ fetchLog[k].links = <<>>
             /\ \A x \in Entries :
                   IsPrefix(fetchLog[k].path, fetchLog[x].path) => x = k
    /\ (\E k \in Entries : ParseFailed(fetchLog[k])) =>
          status \in {"crawling", "done", "interrupted"}
    /\ status = "done" =>
          \A k \in Recorded :
             fetchLog[k].depth < max_depth =>
                \A u \in Range(fetchLog[k].links) : u \in LogUrls

\* The parse of a page with anchors failed two levels down, and the next
\* link of its parent was fetched afterwards.
C24_Witness ==
    /\ status = "done"
    /\ \E f, g \in Entries :
         /\ ParseFailed(fetchLog[f])
         /\ Len(fetchLog[f].path) = 2
         /\ Anchors(f) # <<>>
         /\ f < g
         /\ fetchLog[g].path = Append(Front(fetchLog[f].path), fetchLog[f].path[2] + 1)

(***************************************************************************)
(* C23                                                                     *)
(***************************************************************************)

\* The URLs the crawl knows of: the seed and every link crawl_page
\* returned, all of which passed is_valid_url.
Discovered == {start_url} \cup UNION {Range(fetchLog[k].links) : k \in Entries}

\* crawl_recursive is running.
Crawling == status = "crawling"

\* C23: a crawl that has started comes to its end, and at every moment the
\* number of fetches issued is at most the number of distinct URLs
\* discovered so far.
C23_Termination ==
    /\ [](Crawling => Len(fetchLog) <= Cardinality(Discovered))
    /\ [](status = "done" => Len(fetchLog) <= Cardinality(Discovered))
    /\ (Crawling ~> ~Crawling)

\* A crawl of the site whose pages link to themselves and to each other
\* went two levels deep and returned.
C23_Witness ==
    /\ status = "done" /\ site = "cycle" /\ max_depth = 2
    /\ \E k \in Recorded : fetchLog[k].url \in Range(fetchLog[k].links)
    /\ \E j, k \in Recorded :
          /\ j # k
          /\ fetchLog[j].url \in Range(fetchLog[k].links)
          /\ fetchLog[k].url \in Range(fetchLog[j].links)

(***************************************************************************)
(* C21                                                                     *)
(***************************************************************************)

\* The script wrote the whole of its new data over a region.
SuccessfulReplacement ==
    /\ replaced # <<>>
    /\ Cardinality(replaced[1].written) = replaced[1].new_len

\* C21: the exit status is 0 after a successful replacement and 1 in every
\* other case.
C21_ExitStatus ==
    heap_exit # <<>> =>
       heap_exit = IF SuccessfulReplacement THEN <<0>> ELSE <<1>>

(***************************************************************************)
(* C25                                                                     *)
(***************************************************************************)

\* The addresses of the occurrence that was replaced.
MatchedAddresses ==
    (replaced[1].start + replaced[1].index)
        ..(replaced[1].start + replaced[1].index + replaced[1].search_len - 1)

\* C25: after a replacement every address written lies in the region that
\* was searched, the occurrence replaced is the first of the region, and
\* every byte outside the occurrence has the value it had.
C25_Frame ==
    heap_exit = <<0>> /\ replaced # <<>> =>
       /\ replaced[1].written \subseteq replaced[1].start..(replaced[1].end - 1)
       /\ replaced[1].index =
             FindBytes(ReadMemory(initial_memory, replaced[1].start, replaced[1].end),
                       Encode(argv[2]))
       /\ \A a \in DOMAIN memory :
             a \notin MatchedAddresses => memory[a] = initial_memory[a]

(***************************************************************************)
(* C26                                                                     *)
(***************************************************************************)

\* The sum of the lengths of the record lists stored for the first n types.
RECURSIVE StoredRecords(_)
StoredRecords(n) ==
    IF n = 0 THEN 0
    ELSE StoredRecords(n - 1)
           + (IF record_types[n] \in DOMAIN results
              THEN Len(results[record_types[n]]) ELSE 0)

\* C26: whenever enumerate_all_records has returned, found_types is the
\* number of types in results, total_records the number of records stored,
\* and the summary printed last reports these two numbers.
C26_CountersAgree ==
    record_index = 0 /\ calls > 0 =>
       /\ found_types = Cardinality(DOMAIN results)
       /\ total_records = StoredRecords(Len(record_types))
       /\ summary[Len(summary)] =
             [types |-> Cardinality(DOMAIN results),
              records |-> StoredRecords(Len(record_types))]

====
